---- MODULE Spec2Model ----
(***************************************************************************)
(* Credential lifecycle core of the key bot (src/index.js): the KeyManager *)
(* class (in-memory table `data`, rotation record `hwidChanges`, the       *)
(* primary and backup files) and the operations the adapters call.         *)
(***************************************************************************)
EXTENDS Integers, Sequences, FiniteSets, TLC

(***************************************************************************)
(* Program constants (CONFIG, src/index.js:10-39).                         *)
(***************************************************************************)
KEY_EXPIRATION_DAYS == 1
KEY_REGENERATION_LIMIT == 24
MAX_KEY_LENGTH == 100

\* CONFIG.SECURITY.MAX_HWID_CHANGES is 15 in the source.  The model runs the
\* same code with a smaller limit N so that N+1 rebinds stay explorable.
MAX_HWID_CHANGES == 2

ExpirationMs == KEY_EXPIRATION_DAYS * 24 * 60 * 60 * 1000
RotationWindowMs == KEY_REGENERATION_LIMIT * 60 * 60 * 1000

(***************************************************************************)
(* Bounds of the model.                                                    *)
(***************************************************************************)
\* days of clock time explored after the start; the clock is read once per
\* handler step and advances a day at a time
MaxDays == 1
\* cap on the number of timestamps held in hwidChanges, all owners together
MaxChanges == 2

DayMs == 24 * 60 * 60 * 1000
StartTime == DayMs
MaxTime == StartTime + MaxDays * DayMs

(***************************************************************************)
(* Input values.                                                           *)
(***************************************************************************)
Users == {"u1", "u2"}

HW1 == "aaaaaaaa-aaaa-4aaa-8aaa-aaaaaaaaaaaa"
HW2 == "bbbbbbbb-bbbb-4bbb-9bbb-bbbbbbbbbbbb"
HW_BAD == "not-a-uuid"
ValidHwids == {HW1, HW2}
HwidInputs == {HW1, HW2, HW_BAD}

\* keys generateKey can draw: KEY_PREFIX and three random hex parts
GeneratedKeys == {"Photon-00000001-00000001-00000001",
                  "Photon-00000002-00000002-00000002"}
IMPORTED_KEY == "Photon-0000000a-0000000a-0000000a"

NoKey == ""
NoUser == ""

VARIABLES
    now,          \* Date.now()
    data,         \* KeyManager.data: the entries in insertion order
    hwidChanges,  \* KeyManager.hwidChanges: userId -> list of timestamps
    primary,      \* content of CONFIG.DATA_FILE
    backup,       \* content of CONFIG.BACKUP_FILE
    calls,        \* the calls in flight (asynchronous specifications)
    last,         \* the operation that completed last, with its result
    actions,      \* RateLimiter.actions: userId -> action type -> record
    checkLog,     \* the calls of RateLimiter.check so far, with their answers
    channel       \* userCount, channelUpdateQueue, isUpdatingChannel (lines 65-67)
                  \* and the renames and timers of processChannelUpdateQueue

\* the state the adapters keep outside the KeyManager
adapterVars == <<actions, checkLog, channel>>

vars == <<now, data, hwidChanges, primary, backup, calls, last, actions, checkLog,
         channel>>

(***************************************************************************)
(* Files.  A file is absent or holds text; text is the marker `return {`   *)
(* (present or not) followed by the records the record pattern matches.    *)
(***************************************************************************)
Absent == [exists |-> FALSE, marker |-> FALSE, recs |-> <<>>]
Text(m, rs) == [exists |-> TRUE, marker |-> m, recs |-> rs]
Garbage == Text(FALSE, <<>>)

FileRec(e) == [key |-> e.key, userId |-> e.userId, hwid |-> e.hwid,
               expiresAt |-> e.expiresAt]

\* saveData, lines 190-194: one record per entry, in Object.entries order;
\* createdAt is not written.
Encode(d) == Text(TRUE, [i \in 1..Len(d) |-> FileRec(d[i])])

\* the entry built from one match of keyRegex (loadData, loadBackup, importFromLua)
ParsedEntry(r) == [key |-> r.key, userId |-> r.userId, hwid |-> r.hwid,
                   expiresAt |-> r.expiresAt,
                   createdAt |-> r.expiresAt - ExpirationMs]

(***************************************************************************)
(* The table: a JavaScript object, i.e. a map that keeps insertion order.  *)
(***************************************************************************)
Keys(d) == {d[i].key : i \in 1..Len(d)}
HasKey(d, k) == k \in Keys(d)

\* Array.prototype.find over Object.keys: the first of the indices S, or 0
FirstIndex(S) ==
    IF S = {} THEN 0 ELSE CHOOSE i \in S : \A j \in S : i <= j

getKeyByUserId(d, userId) == FirstIndex({i \in 1..Len(d) : d[i].userId = userId})
getKeyByHwid(d, hwid) == FirstIndex({i \in 1..Len(d) : d[i].hwid = hwid})

\* a property name that is a canonical array index: Object.keys and
\* Object.entries give such names first, in ascending numeric order, and the
\* other names after them in the order in which they were added
INDEX_KEY == "7"
isArrayIndex(k) == k = INDEX_KEY

\* this.data[k] = e: an existing key keeps its place and a new key is appended,
\* but for a new key that is an array index, which goes to the front
Put(d, e) ==
    IF HasKey(d, e.key)
    THEN [i \in 1..Len(d) |-> IF d[i].key = e.key THEN e ELSE d[i]]
    ELSE IF isArrayIndex(e.key) THEN <<e>> \o d
    ELSE Append(d, e)

\* delete this.data[k]
Delete(d, k) == LET P(e) == e.key # k IN SelectSeq(d, P)

KeyLength(k) == Len(k)

\* variant: a key of exactly MAX_KEY_LENGTH characters is skipped too
RECURSIVE DecodeFrom_ShorterLimit(_, _, _)
DecodeFrom_ShorterLimit(recs, i, d) ==
    IF i > Len(recs) THEN d
    ELSE IF KeyLength(recs[i].key) >= MAX_KEY_LENGTH
         THEN DecodeFrom_ShorterLimit(recs, i + 1, d)
         ELSE DecodeFrom_ShorterLimit(recs, i + 1, Put(d, ParsedEntry(recs[i])))

\* the while loop of loadData / loadBackup over the matches of keyRegex
RECURSIVE DecodeFrom(_, _, _)
DecodeFrom(recs, i, d) ==
    IF i > Len(recs) THEN d
    ELSE IF KeyLength(recs[i].key) > MAX_KEY_LENGTH
         THEN DecodeFrom(recs, i + 1, d)
         ELSE DecodeFrom(recs, i + 1, Put(d, ParsedEntry(recs[i])))

Decode(text) == DecodeFrom(text.recs, 1, <<>>)

(***************************************************************************)
(* saveData, lines 188-203: write the primary file, then copy it to the    *)
(* backup file; either step can fail, and the error is re-thrown.          *)
(***************************************************************************)
SaveOutcomes == {"ok", "writeFail", "copyFail"}

\* variant: the catch block of saveData logs the error and does not re-throw it
saveData_Swallow(d, p, b, outcome) ==
    CASE outcome = "ok"        -> [primary |-> Encode(d), backup |-> Encode(d), ok |-> TRUE]
      [] outcome = "writeFail" -> [primary |-> p, backup |-> b, ok |-> TRUE]
      [] outcome = "copyFail"  -> [primary |-> Encode(d), backup |-> b, ok |-> TRUE]

saveData(d, p, b, outcome) ==
    CASE outcome = "ok"        -> [primary |-> Encode(d), backup |-> Encode(d), ok |-> TRUE]
      [] outcome = "writeFail" -> [primary |-> p, backup |-> b, ok |-> FALSE]
      [] outcome = "copyFail"  -> [primary |-> Encode(d), backup |-> b, ok |-> FALSE]

(***************************************************************************)
(* isValidHwid, lines 220-252: trim, lower-case, then the UUID-v4 pattern. *)
(***************************************************************************)
isValidHwid(hwid) == hwid \in ValidHwids

(***************************************************************************)
(* The state after construction.                                           *)
(***************************************************************************)
Procs == {1, 2}
IdleCall == [op |-> "none", pc |-> "idle", userId |-> NoUser, hwid |-> "",
             key |-> NoKey, content |-> Absent, result |-> "", overlapped |-> FALSE]

Done(op, userId, hwid, key, result, count) ==
    [op |-> op, userId |-> userId, hwid |-> hwid, key |-> key,
     result |-> result, count |-> count]

\* lines 65-67 and 1104-1108: no user counted, nothing queued, no rename in
\* flight, the channel not yet named by the bot, and the timer of the initial
\* channel update pending
ChannelStart ==
    [userCount |-> 0, channelUpdateQueue |-> <<>>, isUpdatingChannel |-> FALSE,
     renames |-> <<>>, timers |-> 0, startup |-> TRUE, name |-> -1,
     queued |-> -1, failures |-> 0]

Init ==
    /\ now = StartTime
    /\ data = <<>>
    /\ hwidChanges = [u \in Users |-> <<>>]
    /\ primary = Absent
    /\ backup = Absent
    /\ calls = [p \in Procs |-> IdleCall]
    /\ last = Done("init", NoUser, "", NoKey, "", 0)
    /\ actions = <<>>
    /\ checkLog = <<>>
    /\ channel = ChannelStart

(***************************************************************************)
(* The clock.                                                              *)
(***************************************************************************)
Tick(step) ==
    /\ now + step <= MaxTime
    /\ now' = now + step
    /\ last' = Done("tick", NoUser, "", NoKey, "", 0)
    /\ UNCHANGED <<data, hwidChanges, primary, backup, calls, adapterVars>>

(***************************************************************************)
(* addKey, lines 254-279.                                                  *)
(***************************************************************************)
\* variants of the checks with one or both lookups left out
addKeyCheck_NoLookups(d, userId, hwid) ==
    IF ~isValidHwid(hwid) THEN "InvalidHwid" ELSE "ok"

addKeyCheck_NoOwnerLookup(d, userId, hwid) ==
    IF ~isValidHwid(hwid) THEN "InvalidHwid"
    ELSE IF getKeyByHwid(d, hwid) # 0 THEN "HwidInUse"
    ELSE "ok"

addKeyCheck_NoHwidLookup(d, userId, hwid) ==
    IF ~isValidHwid(hwid) THEN "InvalidHwid"
    ELSE IF getKeyByUserId(d, userId) # 0 THEN "AlreadyBound"
    ELSE "ok"

\* the checks of lines 255-265
addKeyCheck(d, userId, hwid) ==
    IF ~isValidHwid(hwid) THEN "InvalidHwid"
    ELSE IF getKeyByUserId(d, userId) # 0 THEN "AlreadyBound"
    ELSE IF getKeyByHwid(d, hwid) # 0 THEN "HwidInUse"
    ELSE "ok"

\* variant: the key is not looked up in the table
generateKey_NoLookup(d) == GeneratedKeys

\* generateKey, lines 205-218: a random key that is not in the table
generateKey(d) == {k \in GeneratedKeys : ~HasKey(d, k)}

\* variant: the expiry is the time of issue
newEntry_NoDuration(key, userId, hwid, t) ==
    [key |-> key, userId |-> userId, hwid |-> hwid,
     expiresAt |-> t, createdAt |-> t]

\* the entry of lines 268-275
newEntry(key, userId, hwid, t) ==
    [key |-> key, userId |-> userId, hwid |-> hwid,
     expiresAt |-> t + ExpirationMs, createdAt |-> t]

AddKey(userId, hwid, outcomes) ==
    LET chk == addKeyCheck(data, userId, hwid) IN
    IF chk # "ok"
    THEN /\ last' = Done("addKey", userId, hwid, NoKey, chk, 0)
         /\ UNCHANGED <<now, data, hwidChanges, primary, backup, calls, adapterVars>>
    ELSE \E key \in generateKey(data), outcome \in outcomes :
            LET d2 == Put(data, newEntry(key, userId, hwid, now))
                sv == saveData(d2, primary, backup, outcome)
            IN /\ data' = d2
               /\ primary' = sv.primary
               /\ backup' = sv.backup
               /\ last' = Done("addKey", userId, hwid, key,
                               IF sv.ok THEN "ok" ELSE "PersistenceFailure", 0)
               /\ UNCHANGED <<now, hwidChanges, calls, adapterVars>>

(***************************************************************************)
(* removeKey, lines 311-318.                                               *)
(***************************************************************************)
RemoveKey(userId, outcomes) ==
    LET idx == getKeyByUserId(data, userId) IN
    IF idx = 0
    THEN /\ last' = Done("removeKey", userId, "", NoKey, "false", 0)
         /\ UNCHANGED <<now, data, hwidChanges, primary, backup, calls, adapterVars>>
    ELSE \E outcome \in outcomes :
            LET d2 == Delete(data, data[idx].key)
                sv == saveData(d2, primary, backup, outcome)
            IN /\ data' = d2
               /\ primary' = sv.primary
               /\ backup' = sv.backup
               /\ last' = Done("removeKey", userId, "", data[idx].key,
                               IF sv.ok THEN "true" ELSE "PersistenceFailure", 0)
               /\ UNCHANGED <<now, hwidChanges, calls, adapterVars>>

(***************************************************************************)
(* updateHwid, lines 343-371.                                              *)
(***************************************************************************)
\* the checks of lines 344-355, made before the rotation record is touched
updateHwidCheck(d, userId, newHwid) ==
    IF ~isValidHwid(newHwid) THEN "InvalidHwid"
    ELSE IF getKeyByUserId(d, userId) = 0 THEN "NotBound"
    ELSE IF getKeyByHwid(d, newHwid) # 0 THEN "HwidInUse"
    ELSE "ok"

RECURSIVE SumLen(_, _)
SumLen(f, S) ==
    IF S = {} THEN 0
    ELSE LET u == CHOOSE x \in S : TRUE IN Len(f[u]) + SumLen(f, S \ {u})
TotalChanges(changes) == SumLen(changes, DOMAIN changes)

\* lines 357-359: the timestamp is pushed before the limit is evaluated
recordChange(changes, t) == Append(changes, t)

\* lines 361-362
recentChanges(changes, t) ==
    LET oldestAllowed == t - RotationWindowMs
        P(time) == time > oldestAllowed
    IN SelectSeq(changes, P)

\* line 364
rotationLimitReached(recent) == Len(recent) >= MAX_HWID_CHANGES

\* variant: the rebind also restarts the expiry
setHwid_Renewing(d, idx, newHwid) ==
    [d EXCEPT ![idx].hwid = newHwid, ![idx].expiresAt = now + ExpirationMs + 1]

\* line 368
setHwid(d, idx, newHwid) == [d EXCEPT ![idx].hwid = newHwid]

UpdateHwid(userId, newHwid, outcomes, cap) ==
    LET chk == updateHwidCheck(data, userId, newHwid) IN
    IF chk # "ok"
    THEN /\ last' = Done("updateHwid", userId, newHwid, NoKey, chk, 0)
         /\ UNCHANGED <<now, data, hwidChanges, primary, backup, calls, adapterVars>>
    ELSE /\ TotalChanges(hwidChanges) < cap
         /\ LET idx == getKeyByUserId(data, userId)
                changes == recordChange(hwidChanges[userId], now)
            IN /\ hwidChanges' = [hwidChanges EXCEPT ![userId] = changes]
               /\ IF rotationLimitReached(recentChanges(changes, now))
                  THEN /\ last' = Done("updateHwid", userId, newHwid, data[idx].key,
                                       "RotationLimitExceeded", 0)
                       /\ UNCHANGED <<now, data, primary, backup, calls, adapterVars>>
                  ELSE \E outcome \in outcomes :
                          LET d2 == setHwid(data, idx, newHwid)
                              sv == saveData(d2, primary, backup, outcome)
                          IN /\ data' = d2
                             /\ primary' = sv.primary
                             /\ backup' = sv.backup
                             /\ last' = Done("updateHwid", userId, newHwid, data[idx].key,
                                             IF sv.ok THEN "ok" ELSE "PersistenceFailure", 0)
                             /\ UNCHANGED <<now, calls, adapterVars>>

(***************************************************************************)
(* cleanExpiredKeys, lines 373-390.                                        *)
(***************************************************************************)
\* line 378
isExpired(e, t) == e.expiresAt # 0 /\ t >= e.expiresAt

\* variant: a pass deletes the first expired entry only
sweep_FirstOnly(d, t) ==
    LET f == FirstIndex({i \in 1..Len(d) : isExpired(d[i], t)})
    IN IF f = 0 THEN d
       ELSE [i \in 1..(Len(d) - 1) |-> IF i < f THEN d[i] ELSE d[i + 1]]

sweep(d, t) == LET P(e) == ~isExpired(e, t) IN SelectSeq(d, P)

CleanExpiredKeys(outcomes) ==
    LET d2 == sweep(data, now)
        count == Len(data) - Len(d2)
    IN IF count = 0
       THEN /\ last' = Done("cleanExpiredKeys", NoUser, "", NoKey, "ok", 0)
            /\ UNCHANGED <<now, data, hwidChanges, primary, backup, calls, adapterVars>>
       ELSE \E outcome \in outcomes :
               LET sv == saveData(d2, primary, backup, outcome)
               IN /\ data' = d2
                  /\ primary' = sv.primary
                  /\ backup' = sv.backup
                  /\ last' = Done("cleanExpiredKeys", NoUser, "", NoKey,
                                  IF sv.ok THEN "ok" ELSE "PersistenceFailure", count)
                  /\ UNCHANGED <<now, hwidChanges, calls, adapterVars>>

(***************************************************************************)
(* importFromLua, lines 392-415.                                           *)
(***************************************************************************)
\* variant: a record of the text replaces the entry of a key already there
RECURSIVE importFrom_Overwrite(_, _, _)
importFrom_Overwrite(recs, i, d) ==
    IF i > Len(recs) THEN d
    ELSE importFrom_Overwrite(recs, i + 1, Put(d, ParsedEntry(recs[i])))

\* the while loop of lines 397-408: a key already in the table is left alone
RECURSIVE importFrom(_, _, _)
importFrom(recs, i, d) ==
    IF i > Len(recs) THEN d
    ELSE IF HasKey(d, recs[i].key)
         THEN importFrom(recs, i + 1, d)
         ELSE importFrom(recs, i + 1, Put(d, ParsedEntry(recs[i])))

\* the attachments an administrator imports
ImportTexts ==
    { Text(TRUE, << [key |-> IMPORTED_KEY, userId |-> "u1", hwid |-> HW1,
                     expiresAt |-> 0],
                    [key |-> IMPORTED_KEY, userId |-> "u2", hwid |-> HW2,
                     expiresAt |-> StartTime] >>) }

ImportFromLua(luaContent, outcomes) ==
    LET d2 == importFrom(luaContent.recs, 1, data)
        count == Len(d2) - Len(data)
    IN IF count = 0
       THEN /\ last' = Done("importFromLua", NoUser, "", NoKey, "ok", 0)
            /\ UNCHANGED <<now, data, hwidChanges, primary, backup, calls, adapterVars>>
       ELSE \E outcome \in outcomes :
               LET sv == saveData(d2, primary, backup, outcome)
               IN /\ data' = d2
                  /\ primary' = sv.primary
                  /\ backup' = sv.backup
                  /\ last' = Done("importFromLua", NoUser, "", NoKey,
                                  IF sv.ok THEN "ok" ELSE "PersistenceFailure", count)
                  /\ UNCHANGED <<now, hwidChanges, calls, adapterVars>>

(***************************************************************************)
(* loadBackup, lines 145-186, and loadData, lines 107-143.  Each returns   *)
(* the table and the files it leaves, and whether it threw.                *)
(***************************************************************************)
Loaded(d, p, b, threw) == [data |-> d, primary |-> p, backup |-> b, threw |-> threw]

\* lines 176-185: the catch block of loadBackup
loadBackupCatch(p, b, o) ==
    LET sv == saveData(<<>>, p, b, o)
    IN Loaded(<<>>, sv.primary, sv.backup, ~sv.ok)

loadBackup(d, p, b, o1, o2) ==
    IF ~b.exists THEN loadBackupCatch(p, b, o1)
    ELSE IF ~b.marker THEN Loaded(<<>>, p, b, FALSE)
    ELSE LET d2 == Decode(b)
             sv == saveData(d2, p, b, o1)
         IN IF sv.ok THEN Loaded(d2, sv.primary, sv.backup, FALSE)
            ELSE loadBackupCatch(sv.primary, sv.backup, o2)

loadData(d, p, b, o1, o2, o3, o4) ==
    IF ~p.exists THEN loadBackup(d, p, b, o1, o2)
    ELSE IF ~p.marker
         THEN LET r == loadBackup(d, p, b, o1, o2)
              IN IF r.threw
                 THEN loadBackup(r.data, r.primary, r.backup, o3, o4)
                 ELSE r
         ELSE Loaded(Decode(p), p, b, FALSE)

LoadData(outcomes) ==
    \E o1, o2, o3, o4 \in outcomes :
        LET r == loadData(data, primary, backup, o1, o2, o3, o4)
        IN /\ data' = r.data
           /\ primary' = r.primary
           /\ backup' = r.backup
           /\ last' = Done("loadData", NoUser, "", NoKey,
                           IF r.threw THEN "PersistenceFailure" ELSE "ok", 0)
           /\ UNCHANGED <<now, hwidChanges, calls, adapterVars>>

(***************************************************************************)
(* The adapters call the operations one at a time.                         *)
(***************************************************************************)
NoFault == {"ok"}

Next ==
    \/ Tick(DayMs)
    \/ \E u \in Users, h \in HwidInputs : AddKey(u, h, NoFault)
    \/ \E u \in Users : RemoveKey(u, NoFault)
    \/ \E u \in Users, h \in HwidInputs : UpdateHwid(u, h, NoFault, MaxChanges)
    \/ CleanExpiredKeys(NoFault)
    \/ \E t \in ImportTexts : ImportFromLua(t, NoFault)
    \/ LoadData(NoFault)

Spec == Init /\ [][Next]_vars

(***************************************************************************)
(* Calls in flight.  An async method runs to its first await in one step;  *)
(* saveData awaits fs.writeFile (line 196) and then fs.copyFile (line 197),*)
(* and other calls run while it waits.                                     *)
(***************************************************************************)
InFlight(p) == calls[p].pc \in {"write", "writing", "copy"}

Finished(c, result) == [c EXCEPT !.pc = "done", !.result = result]

\* addKey up to the await of line 276: the checks, the insert, and the part
\* of saveData that builds luaContent
StartAddKey(p, userId, hwid) ==
    /\ calls[p].pc = "idle"
    /\ LET chk == addKeyCheck(data, userId, hwid)
           c == [IdleCall EXCEPT !.op = "addKey", !.userId = userId, !.hwid = hwid,
                                 !.overlapped = \E q \in Procs \ {p} : InFlight(q)]
       IN IF chk # "ok"
          THEN /\ calls' = [calls EXCEPT ![p] = Finished(c, chk)]
               /\ UNCHANGED data
          ELSE \E key \in generateKey(data) :
                  LET d2 == Put(data, newEntry(key, userId, hwid, now))
                  IN /\ data' = d2
                     /\ calls' = [calls EXCEPT ![p] =
                                    [c EXCEPT !.pc = "write", !.key = key,
                                              !.content = Encode(d2)]]
    /\ UNCHANGED <<now, hwidChanges, primary, backup, last, adapterVars>>

\* line 196: await fs.writeFile(CONFIG.DATA_FILE, luaContent)
WriteFile(p) ==
    /\ calls[p].pc = "write"
    /\ \E ok \in BOOLEAN :
          IF ok
          THEN /\ primary' = calls[p].content
               /\ calls' = [calls EXCEPT ![p].pc = "copy"]
          ELSE /\ primary' = primary
               /\ calls' = [calls EXCEPT ![p] = Finished(calls[p], "PersistenceFailure")]
    /\ UNCHANGED <<now, data, hwidChanges, backup, last, adapterVars>>

\* line 197: await fs.copyFile(CONFIG.DATA_FILE, CONFIG.BACKUP_FILE), then the return
CopyFile(p) ==
    /\ calls[p].pc = "copy"
    /\ \E ok \in BOOLEAN :
          IF ok
          THEN /\ backup' = primary
               /\ calls' = [calls EXCEPT ![p] = Finished(calls[p], "ok")]
          ELSE /\ backup' = backup
               /\ calls' = [calls EXCEPT ![p] = Finished(calls[p], "PersistenceFailure")]
    /\ UNCHANGED <<now, data, hwidChanges, primary, last, adapterVars>>

AsyncNext ==
    \/ \E p \in Procs, u \in Users, h \in HwidInputs : StartAddKey(p, u, h)
    \/ \E p \in Procs : WriteFile(p)
    \/ \E p \in Procs : CopyFile(p)

AsyncSpec == Init /\ [][AsyncNext]_vars

(***************************************************************************)
(* The timers of the process, lines 1141-1162.  initialize() and the one   *)
(* setInterval of line 1145 are all that index.js schedules: saveUserCount *)
(* every 100 ms.  It writes usercount.json and touches nothing of the      *)
(* KeyManager.  No timer calls cleanExpiredKeys.  The adapters' requests   *)
(* may or may not come; the clock and the timer always run.                *)
(***************************************************************************)
SaveUserCount ==
    /\ last' = Done("saveUserCount", NoUser, "", NoKey, "ok", 0)
    /\ UNCHANGED <<now, data, hwidChanges, primary, backup, calls, adapterVars>>

TimerNext ==
    \/ Tick(DayMs)
    \/ SaveUserCount
    \/ \E u \in Users, h \in HwidInputs : AddKey(u, h, NoFault)
    \/ \E u \in Users : RemoveKey(u, NoFault)

TimerSpec ==
    /\ Init
    /\ [][TimerNext]_vars
    /\ WF_vars(Tick(DayMs))
    /\ WF_vars(SaveUserCount)

(***************************************************************************)
(* Two calls of cleanExpiredKeys in a row, as two firings of a sweep       *)
(* interval make them (src/unnamed/part_002, lines 429-439).  calls[1] is  *)
(* the first call and calls[2] the second; `content` is the text saveData  *)
(* built for the call, Absent when saveData was not called.  Once the      *)
(* first call has been made nothing else runs and no time passes until the *)
(* second has returned.                                                    *)
(***************************************************************************)
SweepCall(p, outcomes) ==
    /\ calls[p].pc = "idle"
    /\ \A q \in Procs : q < p => calls[q].pc = "done"
    /\ LET d2 == sweep(data, now)
           count == Len(data) - Len(d2)
           c == [IdleCall EXCEPT !.op = "cleanExpiredKeys"]
       IN IF count = 0
          THEN /\ calls' = [calls EXCEPT ![p] = Finished(c, "ok")]
               /\ last' = Done("cleanExpiredKeys", NoUser, "", NoKey, "ok", 0)
               /\ UNCHANGED <<now, data, hwidChanges, primary, backup, adapterVars>>
          ELSE \E outcome \in outcomes :
                  LET sv == saveData(d2, primary, backup, outcome)
                      result == IF sv.ok THEN "ok" ELSE "PersistenceFailure"
                  IN /\ data' = d2
                     /\ primary' = sv.primary
                     /\ backup' = sv.backup
                     /\ calls' = [calls EXCEPT ![p] =
                                    Finished([c EXCEPT !.content = Encode(d2)], result)]
                     /\ last' = Done("cleanExpiredKeys", NoUser, "", NoKey, result, count)
                     /\ UNCHANGED <<now, hwidChanges, adapterVars>>

NoSweepYet == \A p \in Procs : calls[p].pc = "idle"

RepeatNext ==
    \/ NoSweepYet /\ Tick(DayMs)
    \/ NoSweepYet /\ \E u \in Users, h \in ValidHwids : AddKey(u, h, NoFault)
    \/ NoSweepYet /\ \E t \in ImportTexts : ImportFromLua(t, NoFault)
    \/ \E p \in Procs : SweepCall(p, SaveOutcomes)

RepeatSpec == Init /\ [][RepeatNext]_vars

(***************************************************************************)
(* The administrator's commands (handleDelete, line 671; handleImport,     *)
(* line 859) next to addKey.  The imported attachments are two-record      *)
(* texts over a key the bot issues and a key it does not, such as an       *)
(* earlier keys.lua gives.                                                 *)
(***************************************************************************)
ISSUED_KEY == "Photon-00000001-00000001-00000001"

MergeRecords ==
    { [key |-> k, userId |-> o[1], hwid |-> o[2], expiresAt |-> MaxTime + DayMs] :
        k \in {ISSUED_KEY, IMPORTED_KEY}, o \in {<<"u1", HW1>>, <<"u2", HW2>>} }

MergeTexts == { Text(TRUE, <<r1, r2>>) : r1 \in MergeRecords, r2 \in MergeRecords }

ImportNext ==
    \/ \E u \in Users, h \in ValidHwids : AddKey(u, h, SaveOutcomes)
    \/ \E u \in Users : RemoveKey(u, NoFault)
    \/ \E t \in MergeTexts : ImportFromLua(t, SaveOutcomes)

ImportSpec == Init /\ [][ImportNext]_vars

(***************************************************************************)
(* Tables the KeyManager can hold once a keys.lua has been loaded: up to   *)
(* two entries under distinct keys, one of them a key of exactly           *)
(* MAX_KEY_LENGTH characters; the expiry is 0, the present, or a later     *)
(* instant, and createdAt is what line 130 derives from it.                *)
(***************************************************************************)
LONGEST_KEY == "Photon-012345678901234567890123456789012345678901234567890123456789012345678901234567890123456789abc"

TableKeys == {ISSUED_KEY, LONGEST_KEY}
TableExpiries == {0, StartTime, MaxTime + DayMs}
TableEntries ==
    { ParsedEntry([key |-> k, userId |-> u, hwid |-> h, expiresAt |-> x]) :
        k \in TableKeys, u \in Users, h \in ValidHwids, x \in TableExpiries }
Tables ==
    {<<>>} \cup { <<e>> : e \in TableEntries }
           \cup { t \in { <<e1, e2>> : e1 \in TableEntries, e2 \in TableEntries } :
                     t[1].key # t[2].key }

\* the state once the constructor's loadData has read a valid keys.lua
LoadedInit ==
    /\ now = StartTime
    /\ data \in Tables
    /\ hwidChanges = [u \in Users |-> <<>>]
    /\ primary = Encode(data)
    /\ backup = Encode(data)
    /\ calls = [p \in Procs |-> IdleCall]
    /\ last = Done("init", NoUser, "", NoKey, "", 0)
    /\ actions = <<>>
    /\ checkLog = <<>>
    /\ channel = ChannelStart

(***************************************************************************)
(* renewKey, lines 281-309.  newExpiration is `new Date()`; line 299 adds  *)
(* 86400000 to it and drops the sum, so the entry's expiresAt and          *)
(* createdAt both become the present instant (as Date objects, which       *)
(* compare by their millisecond value).  saveData is not called.           *)
(***************************************************************************)
renewed(e, t) == [e EXCEPT !.expiresAt = t, !.createdAt = t]

RenewKey(userId, hwid) ==
    LET idx == FirstIndex({i \in 1..Len(data) :
                              data[i].userId = userId /\ data[i].hwid = hwid})
    IN IF idx = 0
       THEN /\ last' = Done("renewKey", userId, hwid, NoKey, "KeyNotFound", 0)
            /\ UNCHANGED <<now, data, hwidChanges, primary, backup, calls, adapterVars>>
       ELSE /\ data' = [data EXCEPT ![idx] = renewed(data[idx], now)]
            /\ last' = Done("renewKey", userId, hwid, data[idx].key, "true", 0)
            /\ UNCHANGED <<now, hwidChanges, primary, backup, calls, adapterVars>>

RenewNext ==
    \/ Tick(DayMs)
    \/ \E u \in Users, h \in ValidHwids : RenewKey(u, h)

RenewSpec == LoadedInit /\ [][RenewNext]_vars

(***************************************************************************)
(* saveData and loadData called on their own while the bot runs: the       *)
(* backup interval and the 'disconnect' handler save, the 'resume' handler *)
(* loads (src/unnamed/part_002, lines 441-463); index.js saves from its    *)
(* signal handlers (lines 1148-1162).  removeKey stands for the mutations  *)
(* between them.                                                           *)
(***************************************************************************)
SaveData(outcomes) ==
    \E outcome \in outcomes :
        LET sv == saveData(data, primary, backup, outcome)
        IN /\ primary' = sv.primary
           /\ backup' = sv.backup
           /\ last' = Done("saveData", NoUser, "", NoKey,
                           IF sv.ok THEN "ok" ELSE "PersistenceFailure", 0)
           /\ UNCHANGED <<now, data, hwidChanges, calls, adapterVars>>

\* the primary file always holds a table here, so loadData saves nothing
CodecNext ==
    \/ SaveData(SaveOutcomes)
    \/ LoadData(NoFault)
    \/ \E u \in Users : RemoveKey(u, SaveOutcomes)

CodecSpec == LoadedInit /\ [][CodecNext]_vars

(***************************************************************************)
(* Start-up, lines 100-105: the constructor empties the table and calls    *)
(* loadData on whatever the two files hold.  A file is absent, is text     *)
(* without the marker (with or without records in it), or is a saved       *)
(* table.  The saves loadBackup makes can fail.  A later loadData is the   *)
(* reload of the 'resume' event (src/unnamed/part_002, lines 460-463).     *)
(***************************************************************************)
UnmarkedText ==
    Text(FALSE, << [key |-> ISSUED_KEY, userId |-> "u1", hwid |-> HW1,
                    expiresAt |-> MaxTime + DayMs] >>)
InvalidFiles == {Garbage, UnmarkedText}
SavedTables == {Encode(T) : T \in Tables}

StartInit ==
    /\ now = StartTime
    /\ data = <<>>
    /\ hwidChanges = [u \in Users |-> <<>>]
    /\ primary \in {Absent} \cup InvalidFiles \cup {Encode(<<>>)}
    /\ backup \in {Absent} \cup InvalidFiles \cup SavedTables
    /\ calls = [p \in Procs |-> IdleCall]
    /\ last = Done("init", NoUser, "", NoKey, "", 0)
    /\ actions = <<>>
    /\ checkLog = <<>>
    /\ channel = ChannelStart

StartNext == LoadData(SaveOutcomes)

StartSpec == StartInit /\ [][StartNext]_vars

(***************************************************************************)
(* fs.writeFile (line 196) in its own steps.  It opens keys.lua for        *)
(* writing, which empties the file, and then writes the text; each is an   *)
(* asynchronous file-system request, and requests of other calls run       *)
(* between them: the fs.copyFile of another save (line 197) and the        *)
(* fs.readFile of the /keys.lua endpoint (line 1083) or of loadData        *)
(* (line 110).  A write that stops part way leaves a prefix of the text.   *)
(***************************************************************************)
EmptyFile == Text(FALSE, <<>>)

\* the text up to the end of its k-th record
Prefix(text, k) == Text(TRUE, SubSeq(text.recs, 1, k))

OpenFile(p) ==
    /\ calls[p].pc = "write"
    /\ \E ok \in BOOLEAN :
          IF ok
          THEN /\ primary' = EmptyFile
               /\ calls' = [calls EXCEPT ![p].pc = "writing"]
          ELSE /\ primary' = primary
               /\ calls' = [calls EXCEPT ![p] = Finished(calls[p], "PersistenceFailure")]
    /\ UNCHANGED <<now, data, hwidChanges, backup, last, adapterVars>>

WriteContent(p) ==
    /\ calls[p].pc = "writing"
    /\ \/ /\ primary' = calls[p].content
          /\ calls' = [calls EXCEPT ![p].pc = "copy"]
       \/ \E k \in 0..(Len(calls[p].content.recs) - 1) :
             /\ primary' = Prefix(calls[p].content, k)
             /\ calls' = [calls EXCEPT ![p] = Finished(calls[p], "PersistenceFailure")]
    /\ UNCHANGED <<now, data, hwidChanges, backup, last, adapterVars>>

\* fs.readFile of keys.lua: the call keeps what it read
ReadFile(p) ==
    /\ calls[p].pc = "idle"
    /\ calls' = [calls EXCEPT ![p] =
                   Finished([IdleCall EXCEPT !.op = "readFile", !.content = primary,
                                             !.overlapped = \E q \in Procs \ {p} : InFlight(q)],
                            "ok")]
    /\ UNCHANGED <<now, data, hwidChanges, primary, backup, last, adapterVars>>

WriteNext ==
    \/ \E p \in Procs, u \in Users, h \in ValidHwids : StartAddKey(p, u, h)
    \/ \E p \in Procs : OpenFile(p)
    \/ \E p \in Procs : WriteContent(p)
    \/ \E p \in Procs : CopyFile(p)
    \/ \E p \in Procs : ReadFile(p)

WriteSpec == Init /\ [][WriteNext]_vars

(***************************************************************************)
(* The mutating operations called one at a time while the file system can  *)
(* fail either step of a save: one user asks for, rebinds and loses a      *)
(* credential, an administrator imports a file that holds an expired       *)
(* credential of another user, and the sweep runs.                         *)
(***************************************************************************)
FaultTexts ==
    { Text(TRUE, << [key |-> IMPORTED_KEY, userId |-> "u2", hwid |-> HW2,
                     expiresAt |-> StartTime] >>) }

FaultNext ==
    \/ \E h \in ValidHwids : AddKey("u1", h, SaveOutcomes)
    \/ RemoveKey("u1", SaveOutcomes)
    \/ \E h \in ValidHwids : UpdateHwid("u1", h, SaveOutcomes, MaxChanges)
    \/ CleanExpiredKeys(SaveOutcomes)
    \/ \E t \in FaultTexts : ImportFromLua(t, SaveOutcomes)

FaultSpec == Init /\ [][FaultNext]_vars

(***************************************************************************)
(* RateLimiter, lines 69-97.  this.actions maps a user and an action type  *)
(* to a record of a count and the time the count was last reset.           *)
(***************************************************************************)
GET_KEY_COUNT == 1
GET_KEY_WINDOW == 3600000
\* EDIT_HWID allows 15 a day in CONFIG; the model scales the count down
EDIT_HWID_COUNT == 2
EDIT_HWID_WINDOW == 86400000
\* USER_UPDATE allows 10 in 100 ms in CONFIG; the model scales the count down
USER_UPDATE_COUNT == 3
USER_UPDATE_WINDOW == 100

RATE_LIMITS ==
    [GET_KEY   |-> [count |-> GET_KEY_COUNT, window |-> GET_KEY_WINDOW],
     EDIT_HWID |-> [count |-> EDIT_HWID_COUNT, window |-> EDIT_HWID_WINDOW],
     USER_UPDATE |-> [count |-> USER_UPDATE_COUNT, window |-> USER_UPDATE_WINDOW]]

\* line 81-82: the record kept for the user and the action type, or a new one
actionRecord(acts, userId, actionType, t) ==
    IF <<userId, actionType>> \in DOMAIN acts
    THEN acts[<<userId, actionType>>]
    ELSE [count |-> 0, lastReset |-> t]

\* variant: the last action the limit allows is denied
check_BelowLimit(acts, userId, actionType, t) ==
    IF actionType \notin DOMAIN RATE_LIMITS
    THEN [actions |-> acts, allowed |-> TRUE, reset |-> 0]
    ELSE LET limit == RATE_LIMITS[actionType]
             kept == actionRecord(acts, userId, actionType, t)
             current == IF t - kept.lastReset > limit.window
                        THEN [count |-> 0, lastReset |-> t]
                        ELSE kept
             counted == [current EXCEPT !.count = @ + 1]
         IN [actions |-> (<<userId, actionType>> :> counted) @@ acts,
             allowed |-> counted.count < limit.count,
             reset |-> counted.lastReset + limit.window]

\* variant: the count is reset as soon as the window has passed
check_ResetAtWindowEnd(acts, userId, actionType, t) ==
    IF actionType \notin DOMAIN RATE_LIMITS
    THEN [actions |-> acts, allowed |-> TRUE, reset |-> 0]
    ELSE LET limit == RATE_LIMITS[actionType]
             kept == actionRecord(acts, userId, actionType, t)
             current == IF t - kept.lastReset >= limit.window
                        THEN [count |-> 0, lastReset |-> t]
                        ELSE kept
             counted == [current EXCEPT !.count = @ + 1]
         IN [actions |-> (<<userId, actionType>> :> counted) @@ acts,
             allowed |-> counted.count <= limit.count,
             reset |-> counted.lastReset + limit.window]

\* variant: a check that is denied starts the window anew
check_DeniedRestarts(acts, userId, actionType, t) ==
    IF actionType \notin DOMAIN RATE_LIMITS
    THEN [actions |-> acts, allowed |-> TRUE, reset |-> 0]
    ELSE LET limit == RATE_LIMITS[actionType]
             kept == actionRecord(acts, userId, actionType, t)
             current == IF t - kept.lastReset > limit.window
                        THEN [count |-> 0, lastReset |-> t]
                        ELSE kept
             counted == [count |-> current.count + 1,
                         lastReset |-> IF current.count >= limit.count THEN t
                                       ELSE current.lastReset]
         IN [actions |-> (<<userId, actionType>> :> counted) @@ acts,
             allowed |-> counted.count <= limit.count,
             reset |-> counted.lastReset + limit.window]

\* check, lines 74-96: the records it leaves and the answer it returns
check(acts, userId, actionType, t) ==
    IF actionType \notin DOMAIN RATE_LIMITS
    THEN [actions |-> acts, allowed |-> TRUE, reset |-> 0]
    ELSE LET limit == RATE_LIMITS[actionType]
             kept == actionRecord(acts, userId, actionType, t)
             current == IF t - kept.lastReset > limit.window
                        THEN [count |-> 0, lastReset |-> t]
                        ELSE kept
             counted == [current EXCEPT !.count = @ + 1]
         IN [actions |-> (<<userId, actionType>> :> counted) @@ acts,
             allowed |-> counted.count <= limit.count,
             reset |-> counted.lastReset + limit.window]

\* the number of checks a run makes
MaxChecks == 5

Checked(userId, actionType, t, answer) ==
    [userId |-> userId, actionType |-> actionType, time |-> t,
     allowed |-> answer.allowed, reset |-> answer.reset]

Check(userId, actionType) ==
    /\ Len(checkLog) < MaxChecks
    /\ LET r == check(actions, userId, actionType, now)
       IN /\ actions' = r.actions
          /\ checkLog' = Append(checkLog, Checked(userId, actionType, now, r))
          /\ last' = Done("check", userId, "", NoKey,
                          IF r.allowed THEN "allowed" ELSE "denied", 0)
    /\ UNCHANGED <<now, data, hwidChanges, primary, backup, calls, channel>>

\* the instants at which requests arrive: around the end of each window
RateInstants ==
    {StartTime, StartTime + GET_KEY_WINDOW, StartTime + GET_KEY_WINDOW + 1,
     StartTime + EDIT_HWID_WINDOW, StartTime + EDIT_HWID_WINDOW + 1}

Wait(t) ==
    /\ t > now
    /\ now' = t
    /\ last' = Done("tick", NoUser, "", NoKey, "", 0)
    /\ UNCHANGED <<data, hwidChanges, primary, backup, calls, adapterVars>>

\* who asks for what: handleGetKey and handleEdit pass the id of the user
Requests == {<<"u1", "GET_KEY">>, <<"u1", "EDIT_HWID">>, <<"u2", "GET_KEY">>}

RateNext ==
    \/ \E r \in Requests : Check(r[1], r[2])
    \/ \E t \in RateInstants : Wait(t)

RateSpec == Init /\ [][RateNext]_vars

(***************************************************************************)
(* handleGetKey, lines 602-656, and handleEdit, lines 900-943: the HWID is *)
(* validated, the rate limiter is asked, and then the key manager is       *)
(* called; what it throws is reported to the user.                         *)
(***************************************************************************)
\* variant: the rate limiter is asked before the HWID is validated
admit_LimiterFirst(acts, userId, actionType, hwid, t) ==
    LET r == check(acts, userId, actionType, t)
    IN [actions |-> r.actions,
        result |-> IF ~r.allowed THEN "RateLimited"
                   ELSE IF ~isValidHwid(hwid) THEN "InvalidHwid" ELSE "ok",
        checked |-> <<Checked(userId, actionType, t, r)>>]

\* variant: the answer of the rate limiter is not looked at
admit_AnswerIgnored(acts, userId, actionType, hwid, t) ==
    IF ~isValidHwid(hwid)
    THEN [actions |-> acts, result |-> "InvalidHwid", checked |-> <<>>]
    ELSE LET r == check(acts, userId, actionType, t)
         IN [actions |-> r.actions,
             result |-> "ok",
             checked |-> <<Checked(userId, actionType, t, r)>>]

\* lines 607-622 and 905-920: the two early returns of a handler
admit(acts, userId, actionType, hwid, t) ==
    IF ~isValidHwid(hwid)
    THEN [actions |-> acts, result |-> "InvalidHwid", checked |-> <<>>]
    ELSE LET r == check(acts, userId, actionType, t)
         IN [actions |-> r.actions,
             result |-> IF r.allowed THEN "ok" ELSE "RateLimited",
             checked |-> <<Checked(userId, actionType, t, r)>>]

\* the number of requests a run lets through to the rate limiter
MaxRequests == 3

HandleGetKey(userId, hwid, outcomes) ==
    LET a == admit(actions, userId, "GET_KEY", hwid, now)
        chk == addKeyCheck(data, userId, hwid)
    IN /\ Len(checkLog) < MaxRequests
       /\ UNCHANGED channel
       /\ actions' = a.actions
       /\ checkLog' = checkLog \o a.checked
       /\ IF a.result # "ok"
          THEN /\ last' = Done("getkey", userId, hwid, NoKey, a.result, 0)
               /\ UNCHANGED <<now, data, hwidChanges, primary, backup, calls>>
          ELSE IF chk # "ok"
          THEN /\ last' = Done("getkey", userId, hwid, NoKey, chk, 0)
               /\ UNCHANGED <<now, data, hwidChanges, primary, backup, calls>>
          ELSE \E key \in generateKey(data), outcome \in outcomes :
                  LET d2 == Put(data, newEntry(key, userId, hwid, now))
                      sv == saveData(d2, primary, backup, outcome)
                  IN /\ data' = d2
                     /\ primary' = sv.primary
                     /\ backup' = sv.backup
                     /\ last' = Done("getkey", userId, hwid, key,
                                     IF sv.ok THEN "ok" ELSE "PersistenceFailure", 0)
                     /\ UNCHANGED <<now, hwidChanges, calls>>

HandleEdit(userId, newHwid, outcomes, cap) ==
    LET a == admit(actions, userId, "EDIT_HWID", newHwid, now)
        chk == updateHwidCheck(data, userId, newHwid)
    IN /\ Len(checkLog) < MaxRequests
       /\ UNCHANGED channel
       /\ actions' = a.actions
       /\ checkLog' = checkLog \o a.checked
       /\ IF a.result # "ok"
          THEN /\ last' = Done("edit", userId, newHwid, NoKey, a.result, 0)
               /\ UNCHANGED <<now, data, hwidChanges, primary, backup, calls>>
          ELSE IF chk # "ok"
          THEN /\ last' = Done("edit", userId, newHwid, NoKey, chk, 0)
               /\ UNCHANGED <<now, data, hwidChanges, primary, backup, calls>>
          ELSE /\ TotalChanges(hwidChanges) < cap
               /\ LET idx == getKeyByUserId(data, userId)
                      changes == recordChange(hwidChanges[userId], now)
                  IN /\ hwidChanges' = [hwidChanges EXCEPT ![userId] = changes]
                     /\ IF rotationLimitReached(recentChanges(changes, now))
                        THEN /\ last' = Done("edit", userId, newHwid, data[idx].key,
                                             "RotationLimitExceeded", 0)
                             /\ UNCHANGED <<now, data, primary, backup, calls>>
                        ELSE \E outcome \in outcomes :
                                LET d2 == setHwid(data, idx, newHwid)
                                    sv == saveData(d2, primary, backup, outcome)
                                IN /\ data' = d2
                                   /\ primary' = sv.primary
                                   /\ backup' = sv.backup
                                   /\ last' = Done("edit", userId, newHwid, data[idx].key,
                                                   IF sv.ok THEN "ok"
                                                   ELSE "PersistenceFailure", 0)
                                   /\ UNCHANGED <<now, calls>>

\* the instants at which requests arrive: around the end of the GET_KEY window
GetKeyInstants ==
    {StartTime, StartTime + GET_KEY_WINDOW, StartTime + GET_KEY_WINDOW + 1}

HandlerNext ==
    \/ \E u \in Users, h \in HwidInputs : HandleGetKey(u, h, SaveOutcomes)
    \/ \E u \in Users, h \in HwidInputs : HandleEdit(u, h, SaveOutcomes, MaxChanges)
    \/ \E t \in GetKeyInstants : Wait(t)

HandlerSpec == Init /\ [][HandlerNext]_vars

(***************************************************************************)
(* getAllKeys, lines 333-341, and the listing of handleCheckList, lines    *)
(* 702-710: the entries as Object.entries gives them, sorted by expiresAt  *)
(* with Array.prototype.sort, which is stable.                             *)
(***************************************************************************)
getAllKeys(d) ==
    [i \in 1..Len(d) |-> [key |-> d[i].key, userId |-> d[i].userId, hwid |-> d[i].hwid,
                          expiresAt |-> d[i].expiresAt, createdAt |-> d[i].createdAt]]

\* e placed in the sorted s after every element that does not compare greater
insertSorted(s, e) ==
    LET n == Cardinality({i \in 1..Len(s) : s[i].expiresAt - e.expiresAt <= 0})
    IN SubSeq(s, 1, n) \o <<e>> \o SubSeq(s, n + 1, Len(s))

\* keys.sort((a, b) => a.expiresAt - b.expiresAt)
RECURSIVE sortByExpiry(_)
sortByExpiry(s) ==
    IF s = <<>> THEN <<>>
    ELSE insertSorted(sortByExpiry(SubSeq(s, 1, Len(s) - 1)), s[Len(s)])

listAll(d) == sortByExpiry(getAllKeys(d))

HandleCheckList ==
    /\ last' = [listed |-> listAll(data)]
                 @@ Done("checklist", NoUser, "", NoKey,
                         IF data = <<>> THEN "empty" ELSE "ok", Len(data))
    /\ UNCHANGED <<now, data, hwidChanges, primary, backup, calls, adapterVars>>

\* the attachments an administrator imports: one credential each, which
\* expires when a credential issued at the start does, or never
ListRecords ==
    { [key |-> k, userId |-> "u2", hwid |-> HW2, expiresAt |-> x] :
        k \in {IMPORTED_KEY, INDEX_KEY}, x \in {0, StartTime + ExpirationMs} }

ListTexts == { Text(TRUE, <<r>>) : r \in ListRecords }

ListNext ==
    \/ Tick(DayMs)
    \/ \E u \in Users, h \in ValidHwids : AddKey(u, h, NoFault)
    \/ \E t \in ListTexts : ImportFromLua(t, NoFault)
    \/ HandleCheckList

ListSpec == Init /\ [][ListNext]_vars

(***************************************************************************)
(* handleAddKey, lines 818-898: the text of any attachment named *.lua is  *)
(* handed to importFromLua.  The attachments here hold one record, with or *)
(* without the leading `return {`, under a key of ordinary length or one   *)
(* of MAX_KEY_LENGTH + 1 characters.                                       *)
(***************************************************************************)
OVERLONG_KEY == "Photon-0123456789012345678901234567890123456789012345678901234567890123456789012345678901234567890abc"

UploadRecords ==
    { [key |-> k, userId |-> "u2", hwid |-> HW2, expiresAt |-> MaxTime + DayMs] :
        k \in {IMPORTED_KEY, OVERLONG_KEY} }

UploadTexts == { Text(m, <<r>>) : m \in BOOLEAN, r \in UploadRecords }

UploadNext ==
    \/ \E u \in Users, h \in ValidHwids : AddKey(u, h, NoFault)
    \/ \E u \in Users : RemoveKey(u, NoFault)
    \/ \E t \in UploadTexts : ImportFromLua(t, SaveOutcomes)
    \/ LoadData(NoFault)

UploadSpec == Init /\ [][UploadNext]_vars

(***************************************************************************)
(* loadData in flight.  The constructor (line 104) and the 'resume' event  *)
(* (src/unnamed/part_002, lines 460-463) call loadData without awaiting    *)
(* it; it awaits fs.access and fs.readFile (lines 109-110), and only then  *)
(* replaces this.data by what the text it read holds (lines 119-132).      *)
(* Handlers run while it waits.                                            *)
(***************************************************************************)
\* the tables keys.lua holds when the bot starts: none, or a credential of u2
ReloadTables ==
    { <<>>,
      << ParsedEntry([key |-> IMPORTED_KEY, userId |-> "u2", hwid |-> HW2,
                      expiresAt |-> MaxTime + DayMs]) >> }

ReloadInit ==
    /\ now = StartTime
    /\ data \in ReloadTables
    /\ hwidChanges = [u \in Users |-> <<>>]
    /\ primary = Encode(data)
    /\ backup = Encode(data)
    /\ calls = [p \in Procs |-> IdleCall]
    /\ last = Done("init", NoUser, "", NoKey, "", 0)
    /\ actions = <<>>
    /\ checkLog = <<>>
    /\ channel = ChannelStart

\* loadData up to the await of line 109
StartLoad(p) ==
    /\ calls[p].pc = "idle"
    /\ calls' = [calls EXCEPT ![p] = [IdleCall EXCEPT !.op = "loadData", !.pc = "read"]]
    /\ UNCHANGED <<now, data, hwidChanges, primary, backup, last, adapterVars>>

\* line 110: fs.readFile takes the text of keys.lua
ReadPrimary(p) ==
    /\ calls[p].pc = "read"
    /\ calls' = [calls EXCEPT ![p].pc = "parse", ![p].content = primary]
    /\ UNCHANGED <<now, data, hwidChanges, primary, backup, last, adapterVars>>

\* lines 112-142: the rest of loadData, run on the text that was read
FinishLoad(p, outcomes) ==
    /\ calls[p].pc = "parse"
    /\ \E o1, o2, o3, o4 \in outcomes :
          LET r == loadData(data, calls[p].content, backup, o1, o2, o3, o4)
          IN /\ data' = r.data
             /\ primary' = IF r.primary = calls[p].content THEN primary ELSE r.primary
             /\ backup' = r.backup
             /\ calls' = [calls EXCEPT ![p] =
                            Finished(calls[p], IF r.threw THEN "PersistenceFailure"
                                               ELSE "ok")]
    /\ UNCHANGED <<now, hwidChanges, last, adapterVars>>

ReloadNext ==
    \/ \E p \in Procs : StartLoad(p)
    \/ \E p \in Procs : ReadPrimary(p)
    \/ \E p \in Procs : FinishLoad(p, NoFault)
    \/ \E p \in Procs, u \in Users, h \in ValidHwids : StartAddKey(p, u, h)
    \/ \E p \in Procs : WriteFile(p)
    \/ \E p \in Procs : CopyFile(p)

ReloadSpec == ReloadInit /\ [][ReloadNext]_vars

(***************************************************************************)
(* The user count channel, lines 65-67, 513-600 and 1104-1108.             *)
(* handleUserUpdate counts a user in or out and queues the new count;      *)
(* processChannelUpdateQueue takes the last count queued and renames the   *)
(* channel after it.  channel.renames holds the runs that are waiting at   *)
(* one of their two awaits, channel.timers counts the callbacks setTimeout *)
(* has pending, channel.name is the count in the name of the channel,      *)
(* channel.queued the count pushed most recently and channel.failures the  *)
(* number of fetches and renames that have thrown.                         *)
(***************************************************************************)
\* the requests a run receives
MaxUpdates == 4
\* the fetches and renames that throw in a run
MaxFailures == 2

\* req.socket.remoteAddress
Addresses == {"10.0.0.1"}
Methods == {"POST", "GET"}
Bodies == {"1", "0", "2"}
FetchOutcomes == {"channel", "null", "throw"}
SetNameOutcomes == {"ok", "throw"}

\* line 519: the count a run takes is the one queued last
latestOf(queue) == queue[Len(queue)]

\* lines 592 and 1105: channelUpdateQueue.push
push(c, count) ==
    [c EXCEPT !.channelUpdateQueue = Append(@, count), !.queued = count]

\* variant: a run starts while another one is in flight
processChannelUpdateQueue_NoFlag(c) ==
    IF Len(c.channelUpdateQueue) = 0
    THEN c
    ELSE [c EXCEPT !.isUpdatingChannel = TRUE,
                   !.channelUpdateQueue = <<>>,
                   !.renames = Append(@, [pc |-> "fetch",
                                          latestCount |-> latestOf(c.channelUpdateQueue),
                                          discarded |-> Len(c.channelUpdateQueue) - 1])]

\* lines 514-523: processChannelUpdateQueue up to its first await
processChannelUpdateQueue(c) ==
    IF c.isUpdatingChannel \/ Len(c.channelUpdateQueue) = 0
    THEN c
    ELSE [c EXCEPT !.isUpdatingChannel = TRUE,
                   !.channelUpdateQueue = <<>>,
                   !.renames = Append(@, [pc |-> "fetch",
                                          latestCount |-> latestOf(c.channelUpdateQueue),
                                          discarded |-> Len(c.channelUpdateQueue) - 1])]

\* lines 535-540, the catch block: the count is queued again, and a timer
\* set, when nothing was queued in the meantime
catchBlock(c, latestCount) ==
    IF Len(c.channelUpdateQueue) = 0
    THEN [push(c, latestCount) EXCEPT !.timers = @ + 1]
    ELSE c

\* lines 541-547, the finally block
finallyBlock(c) ==
    [c EXCEPT !.isUpdatingChannel = FALSE,
              !.timers = IF Len(c.channelUpdateQueue) > 0 THEN @ + 1 ELSE @]

\* the run at position i has returned
returned(c, i) ==
    [c EXCEPT !.renames = SubSeq(@, 1, i - 1) \o SubSeq(@, i + 1, Len(@))]

\* handleUserUpdate, lines 551-600
HandleUserUpdate(address, method, body) ==
    /\ Len(checkLog) < MaxUpdates
    /\ IF method # "POST"
       THEN /\ last' = Done("userUpdate", address, "", NoKey, "405", 0)
            /\ UNCHANGED <<actions, checkLog, channel>>
       ELSE LET r == check(actions, address, "USER_UPDATE", now)
                change == IF body = "1" THEN 1 ELSE -1
                newCount == channel.userCount + change
                result == IF ~r.allowed THEN "429"
                          ELSE IF body \notin {"1", "0"} THEN "400"
                          ELSE IF newCount < 0 THEN "400"
                          ELSE "200"
            IN /\ actions' = r.actions
               /\ checkLog' = Append(checkLog,
                                     Checked(address, "USER_UPDATE", now, r))
               /\ channel' = IF result = "200"
                             THEN processChannelUpdateQueue(
                                      push([channel EXCEPT !.userCount = newCount],
                                           newCount))
                             ELSE channel
               /\ last' = Done("userUpdate", address, "", NoKey, result,
                               IF result = "200" THEN newCount ELSE 0)
    /\ UNCHANGED <<now, data, hwidChanges, primary, backup, calls>>

\* lines 1104-1107: the initial channel update
InitialUpdate ==
    /\ channel.startup
    /\ channel' = processChannelUpdateQueue(
                      push([channel EXCEPT !.startup = FALSE], channel.userCount))
    /\ last' = Done("initialUpdate", NoUser, "", NoKey, "", 0)
    /\ UNCHANGED <<now, data, hwidChanges, primary, backup, calls, actions,
                   checkLog>>

\* lines 538 and 545: a callback of setTimeout runs
RetryTimer ==
    /\ channel.timers > 0
    /\ channel' = processChannelUpdateQueue([channel EXCEPT !.timers = @ - 1])
    /\ last' = Done("retryTimer", NoUser, "", NoKey, "", 0)
    /\ UNCHANGED <<now, data, hwidChanges, primary, backup, calls, actions,
                   checkLog>>

\* line 524: client.channels.fetch settles
FetchChannel(i, outcome) ==
    /\ i \in DOMAIN channel.renames
    /\ channel.renames[i].pc = "fetch"
    /\ outcome = "throw" => channel.failures < MaxFailures
    /\ LET latestCount == channel.renames[i].latestCount
       IN channel' =
            CASE outcome = "channel" ->
                   [channel EXCEPT !.renames[i].pc = "setName"]
              [] outcome = "null" ->
                   finallyBlock(returned(channel, i))
              [] outcome = "throw" ->
                   finallyBlock(catchBlock(
                       [returned(channel, i) EXCEPT !.failures = @ + 1],
                       latestCount))
    /\ last' = Done("fetch", NoUser, "", NoKey, outcome, 0)
    /\ UNCHANGED <<now, data, hwidChanges, primary, backup, calls, actions,
                   checkLog>>

\* lines 526-532: channel.setName settles
SetName(i, outcome) ==
    /\ i \in DOMAIN channel.renames
    /\ channel.renames[i].pc = "setName"
    /\ outcome = "throw" => channel.failures < MaxFailures
    /\ LET latestCount == channel.renames[i].latestCount
       IN channel' =
            CASE outcome = "ok" ->
                   finallyBlock([returned(channel, i) EXCEPT !.name = latestCount])
              [] outcome = "throw" ->
                   finallyBlock(catchBlock(
                       [returned(channel, i) EXCEPT !.failures = @ + 1],
                       latestCount))
    /\ last' = Done("setName", NoUser, "", NoKey, outcome,
                    channel.renames[i].latestCount)
    /\ UNCHANGED <<now, data, hwidChanges, primary, backup, calls, actions,
                   checkLog>>

\* the instant at which the window of USER_UPDATE has passed
ChannelInstants == {StartTime + USER_UPDATE_WINDOW + 1}

ChannelNext ==
    \/ \E a \in Addresses, m \in Methods, b \in Bodies : HandleUserUpdate(a, m, b)
    \/ InitialUpdate
    \/ RetryTimer
    \/ \E i \in 1..2, o \in FetchOutcomes : FetchChannel(i, o)
    \/ \E i \in 1..2, o \in SetNameOutcomes : SetName(i, o)
    \/ \E t \in ChannelInstants : Wait(t)

ChannelSpec == Init /\ [][ChannelNext]_vars

(***************************************************************************)
(* Properties.                                                             *)
(***************************************************************************)
Indices(d) == 1..Len(d)
\* an entry the sweep would keep at time t
Live(e, t) == e.expiresAt > t \/ e.expiresAt = 0
UniqueOwner(d) == \A i, j \in Indices(d) : i # j => d[i].userId # d[j].userId
UniqueHwid(d) == \A i, j \in Indices(d) : i # j => d[i].hwid # d[j].hwid

\* C1: in every reachable state no two credentials of the store have the
\* same ownerId (userId).
C1_OneCredentialPerOwner == UniqueOwner(data)

\* C2: in every reachable state no two credentials of the store have the
\* same hwid.
C2_OneCredentialPerHwid == UniqueHwid(data)

\* C3: of two addKey calls for the same owner and HWID, in flight at once or
\* one after the other, never both return a credential; when no write of
\* either fails, exactly one returns a credential and the other fails with
\* AlreadyBound or HwidInUse; and the store never holds two credentials for
\* one owner or one HWID.
C3_OneIssueWins ==
    /\ UniqueOwner(data)
    /\ UniqueHwid(data)
    /\ \A p, q \in Procs :
          ( /\ p # q
            /\ calls[p].pc = "done" /\ calls[q].pc = "done"
            /\ calls[p].userId = calls[q].userId
            /\ calls[p].hwid = calls[q].hwid
            /\ isValidHwid(calls[p].hwid) )
          => /\ ~(calls[p].result = "ok" /\ calls[q].result = "ok")
             /\ ( "PersistenceFailure" \notin {calls[p].result, calls[q].result}
                  => \E w \in {p, q}, f \in {p, q} :
                        /\ w # f
                        /\ calls[w].result = "ok"
                        /\ calls[f].result \in {"AlreadyBound", "HwidInUse"} )

\* both calls have returned, the second was started while the first awaited
\* its write
C3_Witness ==
    \E p, q \in Procs :
        /\ p # q
        /\ calls[p].pc = "done" /\ calls[q].pc = "done"
        /\ calls[p].userId = calls[q].userId /\ calls[p].hwid = calls[q].hwid
        /\ calls[p].result = "ok"
        /\ calls[q].result = "AlreadyBound"
        /\ calls[q].overlapped
        /\ Len(data) = 1

C5_AlreadyBound ==
    [][ \A o \in Users, h2 \in ValidHwids :
          ( /\ \E i \in Indices(data) : data[i].userId = o /\ data[i].expiresAt > now
            /\ data[getKeyByUserId(data, o)].hwid # h2
            /\ last'.op = "addKey" /\ last'.userId = o /\ last'.hwid = h2 )
          => ( /\ last'.result = "AlreadyBound"
               /\ UNCHANGED <<data, hwidChanges, primary, backup>> ) ]_vars

C5_Witness ==
    /\ last.op = "addKey" /\ last.result = "AlreadyBound"
    /\ last.hwid \in ValidHwids
    /\ \E i \in Indices(data) : data[i].userId = last.userId /\ data[i].expiresAt > now
    /\ data[getKeyByUserId(data, last.userId)].hwid # last.hwid
    /\ getKeyByHwid(data, last.hwid) = 0

\* C6: if HWID h is bound to an unexpired credential of owner o1, addKey(o2, h)
\* for another owner o2 that has no credential fails with HwidInUse and
\* changes neither the store, nor the rotation record, nor the files.
C6_HwidInUse ==
    [][ \A o2 \in Users, h \in ValidHwids :
          ( /\ \E i \in Indices(data) :
                  data[i].hwid = h /\ data[i].userId # o2 /\ data[i].expiresAt > now
            /\ getKeyByUserId(data, o2) = 0
            /\ last'.op = "addKey" /\ last'.userId = o2 /\ last'.hwid = h )
          => ( /\ last'.result = "HwidInUse"
               /\ UNCHANGED <<data, hwidChanges, primary, backup>> ) ]_vars

C6_Witness ==
    /\ last.op = "addKey" /\ last.result = "HwidInUse"
    /\ getKeyByUserId(data, last.userId) = 0
    /\ \E i \in Indices(data) :
          data[i].hwid = last.hwid /\ data[i].userId # last.userId /\ data[i].expiresAt > now

\* C7: addKey(o, h) with a valid h is refused with AlreadyBound or HwidInUse
\* only when a live credential exists for o or for h.  (A refused addKey
\* leaves the store as it found it, so the store after it is the store it saw.)
C7_OnlyLiveCredentialsBlock ==
    (last.op = "addKey" /\ last.result \in {"AlreadyBound", "HwidInUse"}) =>
        \E i \in Indices(data) :
            /\ data[i].userId = last.userId \/ data[i].hwid = last.hwid
            /\ Live(data[i], now)

\* C8: a rebind that passes the checks on the HWID and the owner is allowed
\* iff the number of rebinds already recorded in the trailing window is
\* < MAX_ROTATIONS, so the first MAX_ROTATIONS rebinds of a window succeed.
C8_RotationLimit ==
    [][ (last'.op = "updateHwid" /\ last'.result \in {"ok", "RotationLimitExceeded"})
        => ( last'.result = "ok"
             <=> Len(recentChanges(hwidChanges[last'.userId], now)) < MAX_HWID_CHANGES ) ]_vars

\* C9: a RebindHwid rejected with RotationLimitExceeded adds no timestamp to
\* the owner's rotation record.
C9_RejectedRebindNotRecorded ==
    [][ (last'.op = "updateHwid" /\ last'.result = "RotationLimitExceeded")
        => hwidChanges' = hwidChanges ]_vars

\* C10: a successful updateHwid(o, h') changes only the hwid field of o's
\* credential: every other entry, and the key, userId, expiresAt and
\* createdAt of o's entry, are as before.
C10_RebindFrame ==
    [][ (last'.op = "updateHwid" /\ last'.result = "ok")
        => LET idx == getKeyByUserId(data, last'.userId)
           IN /\ idx # 0
              /\ Len(data') = Len(data)
              /\ \A i \in Indices(data) :
                    data'[i] = IF i = idx THEN [data[i] EXCEPT !.hwid = last'.hwid]
                               ELSE data[i] ]_vars

C10_Witness ==
    /\ last.op = "updateHwid" /\ last.result = "ok"
    /\ Len(data) >= 2
    /\ getKeyByUserId(data, last.userId) # 0
    /\ data[getKeyByUserId(data, last.userId)].hwid = last.hwid
    /\ primary = Encode(data)

\* C11: after cleanExpiredKeys has completed at time now, the store holds no
\* credential with expiresAt <= now (an expiresAt of 0 included), every
\* credential with expiresAt > now is still there, unchanged and in its
\* place, and the count returned is the number of credentials removed.
C11_SweepPostcondition ==
    [][ (last'.op = "cleanExpiredKeys" /\ last'.result = "ok")
        => LET Unexpired(e) == e.expiresAt > now
           IN /\ \A i \in Indices(data') : data'[i].expiresAt > now
              /\ data' = SelectSeq(data, Unexpired)
              /\ last'.count = Len(data) - Len(data') ]_vars

\* C12: a credential whose expiresAt has passed is eventually removed from
\* the store by the process itself, whether or not an adapter asks for
\* anything.
C12_ExpiredEventuallyRemoved ==
    \A k \in GeneratedKeys :
        (\E i \in Indices(data) : data[i].key = k /\ data[i].expiresAt <= now)
            ~> ~HasKey(data, k)

\* C13: of two calls of cleanExpiredKeys in a row, with no time passing and
\* no other mutation between them, the second returns 0, leaves the store
\* and the files as they are and does not call saveData.
C13_SecondSweepRemovesNothing ==
    [][ (calls[1].pc = "done" /\ calls[2].pc = "idle" /\ calls'[2].pc = "done")
        => ( /\ last'.op = "cleanExpiredKeys"
             /\ last'.count = 0
             /\ calls'[2].content = Absent
             /\ UNCHANGED <<data, primary, backup>> ) ]_vars

\* the first call removed at least one credential and saved the one that
\* stayed, and the second call has returned
C13_Witness ==
    /\ calls[1].pc = "done" /\ calls[1].content # Absent
    /\ calls[2].pc = "done" /\ calls[2].result = "ok"
    /\ last.op = "cleanExpiredKeys" /\ last.count = 0
    /\ Len(data) = 1
    /\ Len(calls[1].content.recs) = 1
    /\ primary = calls[1].content

\* C14: a token removed by removeKey is not made present and unexpired again
\* by the operation that follows, here importFromLua.  (The claim says so of
\* every later sequence of operations.)
C14_NoResurrection ==
    [][ (last.op = "removeKey" /\ last.result = "true" /\ last'.op = "importFromLua")
        => ~\E i \in Indices(data') :
               data'[i].key = last.key /\ data'[i].expiresAt > now' ]_vars

\* the records of text t that importFromLua is to insert into table d: those
\* whose key is not in d, the first of each key only
Fresh(t, d) ==
    {i \in 1..Len(t.recs) :
        /\ ~HasKey(d, t.recs[i].key)
        /\ \A j \in 1..(i - 1) : t.recs[j].key # t.recs[i].key}

\* C17: importFromLua(t) inserts exactly the records of t whose key is absent
\* from the store (of records with the same key the first), leaves every
\* entry already in the store as it is, returns the number of keys inserted,
\* and calls saveData once if that number is > 0 and not at all if it is 0.
C17_ImportMerge ==
    [][ \A t \in MergeTexts :
          ImportFromLua(t, SaveOutcomes)
          => LET fresh == Fresh(t, data)
                 n == Cardinality(fresh)
             IN /\ Len(data') = Len(data) + n
                /\ \A i \in Indices(data) : data'[i] = data[i]
                /\ \A i \in fresh :
                      \E j \in (Len(data) + 1)..Len(data') :
                          FileRec(data'[j]) = t.recs[i]
                /\ last'.result = "ok" => last'.count = n
                /\ IF n = 0
                   THEN last'.result = "ok" /\ UNCHANGED <<primary, backup>>
                   ELSE last'.result = "ok"
                            => primary' = Encode(data') /\ backup' = Encode(data') ]_vars

\* an import of two records has inserted one of them behind an issued
\* credential, passed over the other, and saved both entries
C17_Witness ==
    /\ last.op = "importFromLua" /\ last.result = "ok" /\ last.count = 1
    /\ Len(data) = 2
    /\ data[1].key = ISSUED_KEY /\ data[1].expiresAt = StartTime + ExpirationMs
    /\ data[2].key = IMPORTED_KEY /\ data[2].expiresAt = MaxTime + DayMs
    /\ primary = Encode(data)

\* C15: from one state to the next, a credential that stays in the store
\* keeps its userId and its expiresAt, and its hwid changes only in a step
\* of updateHwid.
C15_ExpiryFrame ==
    [][ \A i \in Indices(data), j \in Indices(data') :
          data'[j].key = data[i].key
          => ( /\ data'[j].expiresAt = data[i].expiresAt
               /\ data'[j].userId = data[i].userId
               /\ data'[j].hwid # data[i].hwid => last'.op = "updateHwid" ) ]_vars

\* C16: removeKey(o) returns false and changes neither the store nor the
\* files when o has no credential; otherwise it returns true and
\* getKeyData(o) finds no credential afterwards, expired or not.
C16_Revoke ==
    [][ last'.op = "removeKey"
        => IF getKeyByUserId(data, last'.userId) = 0
           THEN last'.result = "false" /\ UNCHANGED <<data, primary, backup>>
           ELSE last'.result = "true" /\ getKeyByUserId(data', last'.userId) = 0 ]_vars

\* the entry of table d under key k
EntryOf(d, k) == d[CHOOSE i \in Indices(d) : d[i].key = k]

Unusable(f) == ~f.exists \/ ~f.marker

\* C19: when the primary file is absent or lacks the marker and the backup
\* file holds a table B, loadData completes without raising and the table
\* in memory afterwards is B: the backup's records, one entry each, in order.
C19_LoadFromBackup ==
    [][ (last'.op = "loadData" /\ Unusable(primary) /\ ~Unusable(backup))
        => ( /\ last'.result = "ok"
             /\ Len(data') = Len(backup.recs)
             /\ \A i \in Indices(data') : FileRec(data'[i]) = backup.recs[i] ) ]_vars

\* C20: when each of the two files is absent or lacks the marker, a loadData
\* that completes leaves an empty table in memory and both files holding the
\* empty table.
C20_SelfHealing ==
    [][ (last'.op = "loadData" /\ last'.result = "ok"
            /\ Unusable(primary) /\ Unusable(backup))
        => ( /\ data' = <<>>
             /\ primary' = Encode(<<>>)
             /\ backup' = Encode(<<>>) ) ]_vars

\* C21: loadData never raises to its caller, whatever the two files hold and
\* whatever the outcome of the saves it makes.
C21_LoadNeverRaises == last.op = "loadData" => last.result = "ok"

\* the texts that a writeFile has been asked to write, and no file at all
\* (what keys.lua is before the first save)
Written == {Absent} \cup {calls[p].content : p \in {q \in Procs : calls[q].op = "addKey"}}

\* C22: a read of keys.lua made while a save is in progress gets the file as
\* it was before the save or as the save writes it in full, never a file
\* the write has emptied or written in part.
C22_NoPartialRead ==
    [][ \A p \in Procs :
          (calls[p].pc = "idle" /\ calls'[p].op = "readFile")
          => calls'[p].content \in Written ]_vars

\* C25: the backup file is only ever written as a copy of a text that has
\* been written to the primary file in full, and when a save returns
\* without error both files hold the same such text; so it is also when
\* saves overlap.
C25_BackupCopiesCompletePrimary ==
    [][ /\ backup' # backup => backup' \in Written
        /\ \A p \in Procs :
              (calls[p].pc = "copy" /\ calls'[p].pc = "done" /\ calls'[p].result = "ok")
              => (primary' = backup' /\ backup' \in Written) ]_vars

Mutating == {"addKey", "removeKey", "updateHwid", "cleanExpiredKeys", "importFromLua"}
Success == {"ok", "true"}

\* C23: a mutating operation (addKey, removeKey, updateHwid, importFromLua,
\* cleanExpiredKeys) whose save failed throws: whenever one of them has changed
\* the table and returns normally, both files hold the encoding of the new table.
C23_FailedSaveIsReported ==
    [][ (last'.op \in Mutating /\ data' # data /\ last'.result \in Success)
        => (primary' = Encode(data') /\ backup' = Encode(data')) ]_vars

\* a mutating operation has thrown PersistenceFailure and a file does not hold
\* the table
C23_Witness ==
    /\ last.op \in Mutating
    /\ last.result = "PersistenceFailure"
    /\ (primary # Encode(data) \/ backup # Encode(data))

\* C24: when the save fails during addKey, removeKey or updateHwid, the table
\* and the rotation record are as they were before the operation.
C24_FailedSaveIsReverted ==
    [][ (last'.op \in {"addKey", "removeKey", "updateHwid"}
         /\ last'.result = "PersistenceFailure")
        => (data' = data /\ hwidChanges' = hwidChanges) ]_vars

\* the checks of one user for one action type, in the order they were made
ChecksOf(log, r) ==
    LET P(e) == e.userId = r[1] /\ e.actionType = r[2] IN SelectSeq(log, P)

\* the time of the check that started the window of the i-th check of ev
RECURSIVE WindowStart(_, _, _)
WindowStart(ev, i, w) ==
    IF i = 1 THEN ev[1].time
    ELSE LET s == WindowStart(ev, i - 1, w)
         IN IF ev[i].time - s > w THEN ev[i].time ELSE s

\* the checks of ev that fall in the window of the i-th, up to the i-th
InWindow(ev, i, w) ==
    {n \in 1..i : WindowStart(ev, n, w) = WindowStart(ev, i, w)}

Admitted(ev, i, j) == {n \in i..j : ev[n].allowed}

\* C26: within one window of a user and an action type, the first `count`
\* checks are allowed and every later one is denied.
C26_FirstLimitAllowed ==
    \A r \in Requests :
        LET ev == ChecksOf(checkLog, r)
            limit == RATE_LIMITS[r[2]]
        IN \A i \in 1..Len(ev) :
              ev[i].allowed <=> Cardinality(InWindow(ev, i, limit.window)) <= limit.count

\* a window of EDIT_HWID checks in which the limit was used up and another
\* check was denied, followed by a check that started the next window
C26_Witness ==
    \E r \in Requests :
        LET ev == ChecksOf(checkLog, r)
            limit == RATE_LIMITS[r[2]]
        IN /\ limit.count > 1
           /\ Len(ev) > limit.count + 1
           /\ \A n \in 1..limit.count : ev[n].allowed
           /\ ~ev[limit.count + 1].allowed
           /\ WindowStart(ev, limit.count + 1, limit.window) = ev[1].time
           /\ WindowStart(ev, Len(ev), limit.window) # ev[1].time
           /\ ev[Len(ev)].allowed

\* C27 as stated: `count` checks made just before the check that resets the
\* window and `count` checks from that one on, all within a span shorter than
\* the window, are all allowed.
C27_BoundaryBurst ==
    \A r \in Requests :
        LET ev == ChecksOf(checkLog, r)
            limit == RATE_LIMITS[r[2]]
        IN \A j \in 1..Len(ev) :
              LET i == j - limit.count
                  k == j + limit.count - 1
              IN (/\ i >= 1
                  /\ k <= Len(ev)
                  /\ WindowStart(ev, j, limit.window) = ev[j].time
                  /\ WindowStart(ev, j - 1, limit.window) # ev[j].time
                  /\ ev[k].time - ev[i].time < limit.window)
                 => Admitted(ev, i, k) = i..k

\* C27 (amended): of the checks of one user and action type made within a span
\* of at most the window, no more than 2 x count - 1 are allowed.
C27_AdmittedWithinWindow ==
    \A r \in Requests :
        LET ev == ChecksOf(checkLog, r)
            limit == RATE_LIMITS[r[2]]
        IN \A i, j \in 1..Len(ev) :
              (i <= j /\ ev[j].time - ev[i].time <= limit.window)
              => Cardinality(Admitted(ev, i, j)) <= 2 * limit.count - 1

\* 2 x count - 1 checks allowed within a span shorter than the window, more
\* than the limit allows in a window
C27_Witness ==
    \E r \in Requests :
        LET ev == ChecksOf(checkLog, r)
            limit == RATE_LIMITS[r[2]]
        IN /\ limit.count > 1
           /\ \E i, j \in 1..Len(ev) :
                 /\ i <= j
                 /\ ev[j].time - ev[i].time < limit.window
                 /\ Cardinality(Admitted(ev, i, j)) = 2 * limit.count - 1

\* C28: a getkey request of a user whose earlier request the rate limiter
\* allowed no more than GET_KEY_WINDOW ago is denied by the rate limiter,
\* whatever became of the earlier request, and does not reach addKey: the table
\* and the files stay as they are.
C28_CheckCountsWhateverFollows ==
    [][ (/\ last'.op = "getkey"
         /\ \E n \in 1..Len(checkLog) :
               /\ checkLog[n].userId = last'.userId
               /\ checkLog[n].actionType = "GET_KEY"
               /\ checkLog[n].allowed
               /\ now - checkLog[n].time <= GET_KEY_WINDOW)
        => (/\ last'.hwid \in ValidHwids => last'.result = "RateLimited"
            /\ UNCHANGED <<data, primary, backup, hwidChanges>>) ]_vars

\* a user whose allowed request ended without a credential (the HWID was in
\* use) asks again and is denied by the rate limiter
C28_Witness ==
    /\ last.op = "getkey"
    /\ last.result = "RateLimited"
    /\ getKeyByUserId(data, last.userId) = 0
    /\ \E n \in 1..Len(checkLog) :
          /\ checkLog[n].userId = last.userId
          /\ checkLog[n].actionType = "GET_KEY"
          /\ checkLog[n].allowed

\* C29: a getkey or edit request whose HWID fails validation is answered
\* InvalidHwid and leaves the table, the files, the rotation record and the
\* records of the rate limiter as they are.
C29_InvalidHwidFrame ==
    [][ (last'.op \in {"getkey", "edit"} /\ last'.hwid \notin ValidHwids)
        => (/\ last'.result = "InvalidHwid"
            /\ UNCHANGED <<data, primary, backup, hwidChanges, actions, checkLog>>) ]_vars

\* an edit request with an invalid HWID, made by a user who holds a credential
\* and has used the rate limiter before
C29_Witness ==
    /\ last.op = "edit"
    /\ last.hwid = HW_BAD
    /\ last.result = "InvalidHwid"
    /\ getKeyByUserId(data, last.userId) # 0
    /\ \E n \in 1..Len(checkLog) : checkLog[n].userId = last.userId

\* the entries of s whose key is in K, in the order of s
Among(s, K) == LET P(e) == e.key \in K IN SelectSeq(s, P)

\* C30: the listing holds every credential of the table exactly once, in
\* ascending order of expiresAt, and credentials of equal expiresAt in the order
\* in which they were inserted: what is listed after one credential was inserted
\* is what was listed before, with the new credential after every credential
\* that does not expire later.
C30_ListAllOrder ==
    [][ /\ last'.op = "checklist"
           => /\ Len(last'.listed) = Len(data)
              /\ {last'.listed[i].key : i \in 1..Len(data)} = Keys(data)
              /\ \A i, j \in 1..Len(data) :
                    i < j => last'.listed[i].expiresAt <= last'.listed[j].expiresAt
        /\ \A k \in Keys(data') \ Keys(data) :
              (Keys(data') = Keys(data) \cup {k})
              => LET before == listAll(data)
                     after == listAll(data')
                     n == CHOOSE i \in 1..Len(after) : after[i].key = k
                 IN /\ Among(after, Keys(data)) = before
                    /\ \A i \in 1..Len(after) :
                          (i # n /\ after[i].expiresAt = after[n].expiresAt) => i < n ]_vars

\* C31: importFromLua of a text that does not begin with `return {` inserts
\* nothing, returns 0 and does not save.
C31_UnmarkedImportInsertsNothing ==
    [][ \A t \in UploadTexts :
          (~t.marker /\ ImportFromLua(t, SaveOutcomes))
          => (/\ data' = data
              /\ last'.count = 0
              /\ UNCHANGED <<primary, backup>>) ]_vars

\* C32: every key of the table has at most MAX_KEY_LENGTH characters.
C32_KeyLengthBound ==
    \A i \in Indices(data) : KeyLength(data[i].key) <= MAX_KEY_LENGTH

\* C33: a check made more than the window after the start of the window, and
\* no other, restarts the count at 1 with the window starting at that check,
\* and is allowed; any other check adds 1 to the count and leaves the start of
\* the window alone, so a denied check never moves it.
C33_WindowReset ==
    [][ Len(checkLog') = Len(checkLog) + 1
        => LET e == checkLog'[Len(checkLog')]
               r == <<e.userId, e.actionType>>
               w == RATE_LIMITS[e.actionType].window
           IN /\ IF r \in DOMAIN actions /\ e.time - actions[r].lastReset <= w
                 THEN actions'[r] = [count |-> actions[r].count + 1,
                                     lastReset |-> actions[r].lastReset]
                 ELSE actions'[r] = [count |-> 1, lastReset |-> e.time] /\ e.allowed
              /\ ~e.allowed => (r \in DOMAIN actions
                                /\ actions'[r].lastReset = actions[r].lastReset)
              /\ \A q \in DOMAIN actions \ {r} : actions'[q] = actions[q] ]_vars

\* a user was allowed, then denied twice, and is allowed again by the first
\* check made more than the window after the first one
C33_Witness ==
    \E r \in Requests :
        LET ev == ChecksOf(checkLog, r)
        IN /\ Len(ev) = 4
           /\ ev[1].allowed /\ ~ev[2].allowed /\ ~ev[3].allowed /\ ev[4].allowed
           /\ ev[4].time - ev[1].time > RATE_LIMITS[r[2]].window
           /\ actions[r] = [count |-> 1, lastReset |-> ev[4].time]

\* C34: after a denied check that returned the reset instant r, a check of the
\* same user for the same action type made at any time t >= r is allowed.
C34_AllowedFromResetInstant ==
    \A r \in Requests :
        LET ev == ChecksOf(checkLog, r)
        IN \A i, j \in 1..Len(ev) :
              (i < j /\ ~ev[i].allowed /\ ev[j].time >= ev[i].reset) => ev[j].allowed

\* what a file or a table says of its credentials: key, userId, hwid, expiresAt
Records(d) == {FileRec(d[i]) : i \in 1..Len(d)}

\* C35: when no call is in flight and no save has failed, the primary file
\* decodes to the credentials of the table, also after saves that overlapped.
C35_IdleFileMatchesTable ==
    (/\ \A p \in Procs : ~InFlight(p)
     /\ \A p \in Procs : calls[p].result # "PersistenceFailure"
     /\ \E p \in Procs : calls[p].op = "addKey" /\ calls[p].result = "ok")
    => Records(Decode(primary)) = Records(data)

\* C36: the credential a successful addKey returned is in the table as long as
\* it is neither removed nor swept, also when a loadData was in flight.
C36_IssuedStaysInStore ==
    \A p \in Procs :
        (calls[p].op = "addKey" /\ calls[p].pc = "done" /\ calls[p].result = "ok")
        => HasKey(data, calls[p].key)

\* C37: when loadData falls back to a backup file that holds a table, the
\* credentials of that table are in memory afterwards and still in the backup
\* file, also when the save that follows the fallback fails.
C37_FallbackLosesNothing ==
    [][ (last'.op = "loadData" /\ Unusable(primary) /\ ~Unusable(backup))
        => ( /\ Records(Decode(backup)) \subseteq Records(data')
             /\ Records(Decode(backup)) \subseteq Records(Decode(backup')) ) ]_vars

\* C38: the key a successful addKey assigns was not in the table before; the
\* entries that were there are all unchanged and the table has one entry more.
C38_FreshKey ==
    [][ (last'.op = "addKey" /\ last'.result = "ok")
        => ( /\ ~HasKey(data, last'.key)
             /\ HasKey(data', last'.key)
             /\ Len(data') = Len(data) + 1
             /\ \A i \in Indices(data) : \E j \in Indices(data') : data'[j] = data[i] ) ]_vars

\* addKey has succeeded in a table that already held, by an import, the first
\* of the keys generateKey can draw
C38_Witness ==
    /\ last.op = "addKey" /\ last.result = "ok"
    /\ last.key # ISSUED_KEY
    /\ \E i \in Indices(data) : data[i].key = ISSUED_KEY /\ data[i].expiresAt = MaxTime + DayMs

\* no run is in flight, no timer is pending and nothing is queued
Quiescent ==
    /\ Len(channel.renames) = 0
    /\ channel.timers = 0
    /\ ~channel.startup
    /\ Len(channel.channelUpdateQueue) = 0

\* C39: once counts have been queued and the queue has come to rest (no run
\* in flight, no timer pending, nothing queued), the name of the channel
\* carries the final userCount: no queued count is dropped without a later
\* rename that carries the latest one.
C39_FinalCountIsNamed ==
    (Quiescent /\ channel.queued # -1) => channel.name = channel.userCount

\* C40: at most one run of processChannelUpdateQueue is in flight at any
\* time, and a run that starts carries the count that was queued most
\* recently and leaves the queue empty (the counts queued before it are
\* discarded).
C40_OneRenameWithLatestCount ==
    [][ /\ Len(channel'.renames) <= 1
        /\ Len(channel'.renames) > Len(channel.renames) =>
              /\ channel'.renames[Len(channel'.renames)].latestCount = channel'.queued
              /\ channel'.renames[Len(channel'.renames)].pc = "fetch"
              /\ Len(channel'.channelUpdateQueue) = 0
              /\ channel'.isUpdatingChannel ]_vars

\* a run started by a retry timer took the last of several queued counts
C40_Witness ==
    /\ last.op = "retryTimer"
    /\ Len(channel.renames) = 1
    /\ channel.renames[1].discarded >= 1
    /\ channel.renames[1].latestCount = channel.userCount
====
